---- MODULE Spec2Model ----
(***************************************************************************)
(* A model of grokking_algorithms/expression_formatter.py: the tokenizer,  *)
(* the precedence-climbing Parser, the expression tree and its format      *)
(* methods, and the ExpressionFormatter facade.                            *)
(*                                                                         *)
(* Text is a sequence of one-character strings.  A token is the pair       *)
(* <<kind, value>> the tokenizer yields.  The parser cursor `pos` is       *)
(* 0-based as in the source.                                               *)
(***************************************************************************)
EXTENDS Integers, Sequences, FiniteSets, TLC

\* expression_formatter.py: the input, the Parser's fields, the result
VARIABLES expr_string, budget, stage, tokens, pos, expression, error, output
\* formulex.py: the input, the ExpressionParser's fields, the result
VARIABLES fx_string, fx_stage, fx_tokens, fx_position, fx_node, fx_error,
          fx_output
\* linked_lists/single_linked_list.py: the head node with the nodes linked
\* from it, the sequence the list stands for, what the last call did
VARIABLES list_head, list_abstract, list_outcome
\* stacks/linter.py: the text and the errors returned
VARIABLES lint_text, lint_stage, lint_errors
\* sorting.py: the sorter's data and the list returned
VARIABLES sort_data, sort_stage, sort_result
\* expression_formatter.py, Parser.parse run call by call: the token list, the
\* cursor, the frames of the calls in progress, the tree returned or the
\* error raised
VARIABLES step_tokens, step_pos, step_stack, step_stage, step_result,
          step_error

formatterVars ==
    <<expr_string, budget, stage, tokens, pos, expression, error, output>>

formulexVars ==
    <<fx_string, fx_stage, fx_tokens, fx_position, fx_node, fx_error,
      fx_output>>

listVars == <<list_head, list_abstract, list_outcome>>

linterVars == <<lint_text, lint_stage, lint_errors>>

sortVars == <<sort_data, sort_stage, sort_result>>

stepVars ==
    <<step_tokens, step_pos, step_stack, step_stage, step_result, step_error>>

vars ==
    <<formatterVars, formulexVars, listVars, linterVars, sortVars, stepVars>>

\* Python's None, where a node or a child is absent
None == [none |-> TRUE]

(***************************************************************************)
(* Bounds of the model.                                                    *)
(***************************************************************************)
\* lexemes the caller may put together into an input that stays a prefix of
\* an expression
MaxTyped == 5
\* characters of an input put together with no regard to the grammar
MaxRaw == 3

(***************************************************************************)
(* Character classes of the regular expressions in TOKEN_SPEC.             *)
(***************************************************************************)
Digits == {"0", "1", "2", "3", "4", "5", "6", "7", "8", "9"}

Letters ==
    {"a", "b", "c", "d", "e", "f", "g", "h", "i", "j", "k", "l", "m",
     "n", "o", "p", "q", "r", "s", "t", "u", "v", "w", "x", "y", "z",
     "A", "B", "C", "D", "E", "F", "G", "H", "I", "J", "K", "L", "M",
     "N", "O", "P", "Q", "R", "S", "T", "U", "V", "W", "X", "Y", "Z"}

\* [ \t]
SpaceChars == {" ", "\t"}

\* [a-zA-Z_]
IdStartChars == Letters \cup {"_"}

\* [a-zA-Z0-9_], which is also the class \w that \b is defined by
WordChars == Letters \cup Digits \cup {"_"}

\* [+\-*/%<>=()]
SingleOpChars == {"+", "-", "*", "/", "%", "<", ">", "=", "(", ")"}

\* ==|!=|<=|>=|\*\*
DoubleOps == {<<"=", "=">>, <<"!", "=">>, <<"<", "=">>, <<">", "=">>, <<"*", "*">>}

\* (?:and|or|not|is|in)
WordOps == {<<"a", "n", "d">>, <<"o", "r">>, <<"n", "o", "t">>, <<"i", "s">>, <<"i", "n">>}

(***************************************************************************)
(* OperatorMeta: operator -> <<precedence, associativity>>.                *)
(***************************************************************************)
OPERATORS ==
    (<<"o", "r">> :> <<1, "L">>) @@
    (<<"a", "n", "d">> :> <<2, "L">>) @@
    (<<"n", "o", "t">> :> <<3, "R">>) @@
    (<<"=", "=">> :> <<4, "L">>) @@
    (<<"!", "=">> :> <<4, "L">>) @@
    (<<"<">> :> <<5, "L">>) @@
    (<<">">> :> <<5, "L">>) @@
    (<<"<", "=">> :> <<5, "L">>) @@
    (<<">", "=">> :> <<5, "L">>) @@
    (<<"+">> :> <<5, "L">>) @@
    (<<"-">> :> <<5, "L">>) @@
    (<<"*">> :> <<6, "L">>) @@
    (<<"/">> :> <<6, "L">>) @@
    (<<"%">> :> <<6, "L">>) @@
    (<<"*", "*">> :> <<7, "R">>)

\* what OperatorMeta.get returns when it raises ValueError
UnknownOperator == <<0, "ValueError">>

OperatorMeta_contains(op) == op \in DOMAIN OPERATORS

OperatorMeta_get(op) ==
    IF op \notin DOMAIN OPERATORS THEN UnknownOperator ELSE OPERATORS[op]

(***************************************************************************)
(* The tokenizer.  re.finditer scans left to right; at each position the   *)
(* alternatives of TOKEN_SPEC are tried in order and the first that        *)
(* matches wins; a position where none matches is passed over.             *)
(***************************************************************************)
CharAt(s, i) == IF i >= 1 /\ i <= Len(s) THEN s[i] ELSE ""

\* the number of consecutive characters of s from position i on that are in set
RECURSIVE RunLen(_, _, _)
RunLen(s, i, set) ==
    IF i <= Len(s) /\ s[i] \in set THEN 1 + RunLen(s, i + 1, set) ELSE 0

HasAt(s, i, w) == i + Len(w) - 1 <= Len(s) /\ SubSeq(s, i, i + Len(w) - 1) = w

\* \b between s[i-1] and s[i]
WordBoundary(s, i) == (CharAt(s, i - 1) \in WordChars) # (CharAt(s, i) \in WordChars)

\* the length each alternative of TOKEN_SPEC matches at position i, 0 for no match
SKIP_len(s, i) == RunLen(s, i, SpaceChars)

OP_len(s, i) ==
    IF \E w \in WordOps :
           WordBoundary(s, i) /\ HasAt(s, i, w) /\ WordBoundary(s, i + Len(w))
    THEN Len(CHOOSE w \in WordOps :
           WordBoundary(s, i) /\ HasAt(s, i, w) /\ WordBoundary(s, i + Len(w)))
    ELSE IF \E w \in DoubleOps : HasAt(s, i, w) THEN 2
    ELSE IF CharAt(s, i) \in SingleOpChars THEN 1
    ELSE 0

NUMBER_len(s, i) ==
    LET d == RunLen(s, i, Digits)
    IN  IF d = 0 THEN 0
        ELSE IF CharAt(s, i + d) = "." THEN d + 1 + RunLen(s, i + d + 1, Digits)
        ELSE d

ID_len(s, i) ==
    IF CharAt(s, i) \in IdStartChars THEN 1 + RunLen(s, i + 1, WordChars) ELSE 0

COMMA_len(s, i) == IF CharAt(s, i) = "," THEN 1 ELSE 0

\* "." matches every character but the newline
UNKNOWN_len(s, i) == IF i <= Len(s) /\ s[i] # "\n" THEN 1 ELSE 0

\* match.lastgroup and the length of match.group() at position i
MatchAt(s, i) ==
    IF SKIP_len(s, i) > 0 THEN <<"SKIP", SKIP_len(s, i)>>
    ELSE IF OP_len(s, i) > 0 THEN <<"OP", OP_len(s, i)>>
    ELSE IF NUMBER_len(s, i) > 0 THEN <<"NUMBER", NUMBER_len(s, i)>>
    ELSE IF ID_len(s, i) > 0 THEN <<"ID", ID_len(s, i)>>
    ELSE IF COMMA_len(s, i) > 0 THEN <<"COMMA", COMMA_len(s, i)>>
    ELSE IF UNKNOWN_len(s, i) > 0 THEN <<"UNKNOWN", UNKNOWN_len(s, i)>>
    ELSE <<"", 0>>

\* the loop of tokenize from position i on, acc the tokens yielded so far;
\* `at` is the 0-based position of the character that raised
RECURSIVE tokenize_from(_, _, _)
tokenize_from(s, i, acc) ==
    IF i > Len(s) THEN [ok |-> TRUE, tokens |-> acc, at |-> Len(s)]
    ELSE LET m == MatchAt(s, i)
             kind == m[1]
             value == SubSeq(s, i, i + m[2] - 1)
         IN  IF m[2] = 0 THEN tokenize_from(s, i + 1, acc)
             ELSE IF kind = "SKIP" THEN tokenize_from(s, i + m[2], acc)
             ELSE IF kind = "UNKNOWN" THEN [ok |-> FALSE, tokens |-> <<>>, at |-> i - 1]
             ELSE tokenize_from(s, i + m[2], Append(acc, <<kind, value>>))

tokenize(text) == tokenize_from(text, 1, <<>>)

(***************************************************************************)
(* The expression tree: one record per Expression subclass.                *)
(***************************************************************************)
Value(val) == [kind |-> "Value", val |-> val]

Variable(name) == [kind |-> "Variable", name |-> name]

UnaryOp(op, operand) == [kind |-> "UnaryOp", op |-> op, operand |-> operand]

\* BinaryOp as it would be built from the kind of the token, not its value
BinaryOp_of_kind(left, op, right) ==
    [kind |-> "BinaryOp", left |-> left, op |-> <<"O", "P">>, right |-> right]

BinaryOp(left, op, right) ==
    [kind |-> "BinaryOp", left |-> left, op |-> op, right |-> right]

FuncCall(name, args) == [kind |-> "FuncCall", name |-> name, args |-> args]

\* no tree: the attribute is not set
NoExpression == [kind |-> "None"]

(***************************************************************************)
(* The Parser.  Each method is an operator of the token list and the       *)
(* cursor; it returns the node, the cursor it leaves and, when it raises,  *)
(* the message of the SyntaxError.                                         *)
(***************************************************************************)
EOF == <<"EOF", <<>>>>

LPAREN == <<"(">>

RPAREN == <<")">>

COMMA == <<",">>

MINUS == <<"-">>

Returned(node, p) == [ok |-> TRUE, node |-> node, pos |-> p, error |-> ""]

Raised(msg, p) == [ok |-> FALSE, node |-> NoExpression, pos |-> p, error |-> msg]

current(toks, p) == IF p < Len(toks) THEN toks[p + 1] ELSE EOF

\* advance as it would be were the cursor left where it is
advance_stay(p) == p

advance(p) == p + 1

\* expect(kind, value): the cursor after it, or the SyntaxError
expect(toks, p, kind, value) ==
    LET tok == current(toks, p)
    IN  IF tok[1] # kind \/ tok[2] # value
        THEN Raised("Expected", p)
        ELSE Returned(NoExpression, advance(p))

RECURSIVE parse_expression(_, _, _)
RECURSIVE parse_expression_loop(_, _, _, _)
RECURSIVE parse_primary(_, _)
RECURSIVE parse_arguments(_, _, _)

\* next_min_prec as it would be were associativity left out
next_min_prec_same(prec, assoc) == prec

\* the precedence the right-hand side of an operator is parsed with
next_min_prec(prec, assoc) == IF assoc = "L" THEN prec + 1 ELSE prec

\* the while loop of parse_expression, with `node` the tree built so far
parse_expression_loop(toks, p, node, min_prec) ==
    LET tok == current(toks, p)
        tok_kind == tok[1]
        tok_val == tok[2]
    IN  IF tok_kind = "OP" /\ OperatorMeta_contains(tok_val)
        THEN LET prec == OperatorMeta_get(tok_val)[1]
                 assoc == OperatorMeta_get(tok_val)[2]
                 right == parse_expression(toks, advance(p), next_min_prec(prec, assoc))
             IN  IF OperatorMeta_get(tok_val) = UnknownOperator
                 THEN Raised("ValueError", p)
                 ELSE IF prec < min_prec THEN Returned(node, p)
                 ELSE IF ~right.ok THEN right
                 ELSE parse_expression_loop(
                          toks, right.pos, BinaryOp(node, tok_val, right.node), min_prec)
        ELSE Returned(node, p)

parse_expression(toks, p, min_prec) ==
    LET first == parse_primary(toks, p)
    IN  IF ~first.ok THEN first
        ELSE parse_expression_loop(toks, first.pos, first.node, min_prec)

\* the argument list of a call after its first "(": an expression, then
\* expressions for as long as a comma follows; node is the list args
parse_arguments(toks, p, args) ==
    LET arg == parse_expression(toks, p, 1)
    IN  IF ~arg.ok THEN arg
        ELSE IF current(toks, arg.pos)[2] = COMMA
        THEN parse_arguments(toks, advance(arg.pos), Append(args, arg.node))
        ELSE Returned(Append(args, arg.node), arg.pos)
\* the operand of a unary minus: self.advance() has been called, then
\* operand = self.parse_primary()
parse_operand_expression(toks, p) == parse_expression(toks, p, 1)

parse_operand(toks, p) == parse_primary(toks, p)

parse_primary(toks, p) ==
    LET tok == current(toks, p)
        tok_kind == tok[1]
        tok_val == tok[2]
    IN  IF tok_kind = "NUMBER" THEN Returned(Value(tok_val), advance(p))
        ELSE IF tok_kind = "ID"
        THEN IF current(toks, advance(p))[2] = LPAREN
             THEN LET p1 == advance(advance(p))
                      args == IF current(toks, p1)[2] # RPAREN
                              THEN parse_arguments(toks, p1, <<>>)
                              ELSE Returned(<<>>, p1)
                      closed == expect(toks, args.pos, "OP", RPAREN)
                  IN  IF ~args.ok THEN args
                      ELSE IF ~closed.ok THEN closed
                      ELSE IF Len(args.node) = 1
                      THEN Returned(UnaryOp(tok_val, args.node[1]), closed.pos)
                      ELSE Returned(FuncCall(tok_val, args.node), closed.pos)
             ELSE Returned(Variable(tok_val), advance(p))
        ELSE IF tok_kind = "OP"
        THEN IF tok_val = LPAREN
             THEN LET node == parse_expression(toks, advance(p), 1)
                      closed == expect(toks, node.pos, "OP", RPAREN)
                  IN  IF ~node.ok THEN node
                      ELSE IF ~closed.ok THEN closed
                      ELSE Returned(node.node, closed.pos)
             ELSE IF tok_val = MINUS
             THEN LET operand == parse_operand(toks, advance(p))
                  IN  IF ~operand.ok THEN operand
                      ELSE Returned(UnaryOp(MINUS, operand.node), operand.pos)
             ELSE Raised("Unexpected operator in primary", p)
        ELSE Raised("Unexpected token", p)

\* parse as it would be without the test for the end of the input
parse_prefix(toks) == parse_expression(toks, 0, 1)

\* Parser.parse
parse(toks) ==
    LET result == parse_expression(toks, 0, 1)
    IN  IF ~result.ok THEN result
        ELSE IF current(toks, result.pos)[1] # "EOF"
        THEN Raised("Unexpected token after end of expression", result.pos)
        ELSE result

(***************************************************************************)
(* The format methods.                                                     *)
(***************************************************************************)
\* the two places where BinaryOp.format writes parentheses: around a child
\* (must_parenthesize) and around itself (op_prec < parent_prec); `marks`
\* gives the pair of characters each place writes, which the source fixes
\* to "(" and ")"
Parens == [child |-> <<"(", ")">>, own |-> <<"(", ")">>]

Wrapped(pair, text) == <<pair[1]>> \o text \o <<pair[2]>>

\* must_parenthesize as it would be with the ties alone
must_parenthesize_ties(op_prec, assoc, child, child_side) ==
    /\ child.kind = "BinaryOp"
    /\ OperatorMeta_get(child.op)[1] = op_prec
    /\ ((assoc = "L" /\ child_side = "right") \/ (assoc = "R" /\ child_side = "left"))

\* the helper of BinaryOp.format deciding whether a child is parenthesized
must_parenthesize(op_prec, assoc, child, child_side) ==
    IF child.kind = "BinaryOp"
    THEN LET child_prec == OperatorMeta_get(child.op)[1]
         IN  IF child_prec > op_prec THEN TRUE
             ELSE IF child_prec = op_prec
                     /\ ((assoc = "L" /\ child_side = "right")
                         \/ (assoc = "R" /\ child_side = "left"))
             THEN TRUE
             ELSE FALSE
    ELSE FALSE

\* left_context as it would be were the left child formatted with the default
left_context_default(op_prec, assoc) == 0

\* the context precedence BinaryOp.format hands to each child
left_context(op_prec, assoc) == IF assoc = "L" THEN op_prec ELSE op_prec + 1

right_context(op_prec, assoc) == IF assoc = "L" THEN op_prec + 1 ELSE op_prec

\* parenthesize_self as it would be with <= for <
parenthesize_self_or_equal(op_prec, parent_prec) == op_prec <= parent_prec

\* the last test of BinaryOp.format: parenthesize the whole expression
parenthesize_self(op_prec, parent_prec) == op_prec < parent_prec

\* join as it would be for ",".join(parts)
RECURSIVE join_comma(_, _)
join_comma(sep, parts) ==
    IF parts = <<>> THEN <<>>
    ELSE IF Len(parts) = 1 THEN parts[1]
    ELSE parts[1] \o <<",">> \o join_comma(sep, Tail(parts))

\* ", ".join(parts)
RECURSIVE join(_, _)
join(sep, parts) ==
    IF parts = <<>> THEN <<>>
    ELSE IF Len(parts) = 1 THEN parts[1]
    ELSE parts[1] \o sep \o join(sep, Tail(parts))

\* what format gives when the lookup of the operator raises ValueError
FormatRaised == <<"ValueError">>

\* the format method of each node class
RECURSIVE format_node(_, _, _)
format_node(node, parent_prec, marks) ==
    IF node.kind = "Value" THEN node.val
    ELSE IF node.kind = "Variable" THEN node.name
    ELSE IF node.kind = "UnaryOp"
    THEN LET operand == format_node(node.operand, 0, marks)
         IN  IF operand = FormatRaised THEN FormatRaised
             ELSE node.op \o LPAREN \o operand \o RPAREN
    ELSE IF node.kind = "FuncCall"
    THEN LET args == [i \in 1..Len(node.args) |-> format_node(node.args[i], 0, marks)]
             args_str == join(<<",", " ">>, args)
         IN  IF \E i \in 1..Len(args) : args[i] = FormatRaised THEN FormatRaised
             ELSE node.name \o LPAREN \o args_str \o RPAREN
    ELSE \* BinaryOp
         IF OperatorMeta_get(node.op) = UnknownOperator THEN FormatRaised
         ELSE
         LET op_prec == OperatorMeta_get(node.op)[1]
             assoc == OperatorMeta_get(node.op)[2]
             left_plain == format_node(node.left, left_context(op_prec, assoc), marks)
             right_plain == format_node(node.right, right_context(op_prec, assoc), marks)
             left_fmt == IF must_parenthesize(op_prec, assoc, node.left, "left")
                         THEN Wrapped(marks.child, left_plain) ELSE left_plain
             right_fmt == IF must_parenthesize(op_prec, assoc, node.right, "right")
                          THEN Wrapped(marks.child, right_plain) ELSE right_plain
             expr_str == left_fmt \o <<" ">> \o node.op \o <<" ">> \o right_fmt
         IN  IF left_plain = FormatRaised \/ right_plain = FormatRaised
             THEN FormatRaised
             ELSE IF parenthesize_self(op_prec, parent_prec)
             THEN Wrapped(marks.own, expr_str)
             ELSE expr_str

\* Expression.format(parent_prec)
format(node, parent_prec) == format_node(node, parent_prec, Parens)

(***************************************************************************)
(* The inputs.  A caller hands ExpressionFormatter or Parser a string: one *)
(* of the expressions of the module's own test table and of its            *)
(* documentation, or a string put together from the lexemes below.         *)
(***************************************************************************)
\* the lexemes of the inputs that are put together so as to stay a prefix
\* of an expression
Lexemes ==
    {<<"a">>, <<"2">>, <<"+">>, <<"-">>, <<"*">>, <<"*", "*">>,
     <<" ", "a", "n", "d", " ">>, <<"(">>, <<")">>, <<",">>}

\* the characters of the inputs that are put together with no regard to the
\* grammar
RawChars ==
    {<<"a">>, <<"2">>, <<"-">>, <<"*">>, <<"(">>, <<")">>, <<",">>, <<" ">>,
     <<"#">>, <<"\n">>, <<".">>, <<"=">>}

\* the table `tests` of the module: <<expression, expected format>>
tests ==
    {
     <<<<"a", " ", "+", " ", "b", " ", "*", " ", "c">>,
       <<"a", " ", "+", " ", "(", "b", " ", "*", " ", "c", ")">>>>,
     <<<<"a", " ", "*", " ", "b", " ", "+", " ", "c">>,
       <<"(", "a", " ", "*", " ", "b", ")", " ", "+", " ", "c">>>>,
     <<<<"a", " ", "*", "*", " ", "b", " ", "*", " ", "c">>,
       <<"(", "a", " ", "*", "*", " ", "b", ")", " ", "*", " ", "c">>>>,
     <<<<"a", " ", "*", "*", " ", "b", " ", "*", "*", " ", "c">>,
       <<"a", " ", "*", "*", " ", "(", "b", " ", "*", "*", " ", "c", ")">>>>,
     <<<<"a", "b", "s", "(", "a", " ", "+", " ", "b", " ", "*", " ", "c", ")">>,
       <<"a", "b", "s", "(", "a", " ", "+", " ", "(", "b", " ", "*", " ", "c", ")", ")">>>>,
     <<<<"-", "a", " ", "+", " ", "b">>,
       <<"(", "-", "a", ")", " ", "+", " ", "b">>>>,
     <<<<"r", "o", "u", "n", "d", "(", "a", " ", "+", " ", "b", ",", " ", "2", ")">>,
       <<"r", "o", "u", "n", "d", "(", "a", " ", "+", " ", "b", ",", " ", "2", ")">>>>,
     <<<<"a", " ", "a", "n", "d", " ", "b", " ", "o", "r", " ", "c">>,
       <<"(", "a", " ", "a", "n", "d", " ", "b", ")", " ", "o", "r", " ", "c">>>>,
     <<<<"a", " ", "=", "=", " ", "b", " ", "a", "n", "d", " ", "c">>,
       <<"(", "a", " ", "=", "=", " ", "b", ")", " ", "a", "n", "d", " ", "c">>>>,
     <<<<"(", "a", " ", "+", " ", "b", ")", " ", "*", " ", "c">>,
       <<"(", "a", " ", "+", " ", "b", ")", " ", "*", " ", "c">>>>,
     <<<<"(", "a", " ", "+", " ", "b", ")", " ", "*", "*", " ", "c">>,
       <<"(", "a", " ", "+", " ", "b", ")", " ", "*", "*", " ", "c">>>>,
     <<<<"a", " ", "+", " ", "b", " ", "+", " ", "c">>,
       <<"a", " ", "+", " ", "b", " ", "+", " ", "c">>>>,
     <<<<"a", " ", "*", " ", "(", "b", " ", "+", " ", "c", ")">>,
       <<"a", " ", "*", " ", "(", "b", " ", "+", " ", "c", ")">>>>,
     <<<<"-", "a", "b", "s", "(", "a", " ", "-", " ", "b", ")">>,
       <<"-", "(", "a", "b", "s", "(", "a", " ", "-", " ", "b", ")", ")">>>>
    }

\* further expressions, from the documentation of the classes and the design
DocExamples ==
    {
     <<"a", " ", "-", " ", "b", " ", "-", " ", "c">>,
     <<"a", " ", "+", " ", "b", " ", "-", " ", "c">>,
     <<"f", "(", ")">>,
     <<"a", " ", "#", " ", "b">>,
     <<"(", "a", " ", "+", " ", "b">>,
     <<"a", " ", "+">>,
     <<"a", " ", "b">>,
     <<"a", " ", "+", " ", "b", " ", ")">>,
     <<"f", "(", "a", " ", "b", ")">>,
     <<"a", "\n", "+", " ", "b">>,
     <<"a", " ", "-", " ", "(", "b", " ", "-", " ", "c", ")">>,
     <<"(", "a", " ", "*", "*", " ", "b", ")", " ", "*", "*", " ", "c">>,
     <<"-", "a", " ", "*", "*", " ", "b">>,
     <<"-", "(", "a", ")", " ", "*", " ", "b">>,
     <<"f", "(", "a", ",", " ", "b", ",", " ", "c", ")">>,
     <<"1", ".", "5", " ", "*", " ", "x", "_", "1">>,
     <<"a", " ", "<", "=", " ", "b", " ", "!", "=", " ", "c">>,
     <<"f", "(", "-", "a", ",", " ", "g", "(", "b", ")", " ", "%", " ", "2", ")">>,
     <<"a", " ", "i", "s", " ", "b">>,
     <<"3", ".", " ", "/", " ", "(", "a", " ", ">", "=", " ", "b", ")">>,
     <<"a", "\t", "o", "r", " ", "n", "o", "t", "_", "b">>
    }

\* operators of each precedence level and associativity, written with the
\* spaces around them
ChainOps ==
    {<<" ", "a", "n", "d", " ">>, <<" ", "n", "o", "t", " ">>, <<" ", "-", " ">>,
     <<" ", "*", " ">>, <<" ", "*", "*", " ">>}

\* a o b o c, (a o b) o c, a o (b o c)
Chains2 ==
    UNION {{<<"a">> \o o1 \o <<"b">> \o o2 \o <<"c">>,
            <<"(", "a">> \o o1 \o <<"b", ")">> \o o2 \o <<"c">>,
            <<"a">> \o o1 \o <<"(", "b">> \o o2 \o <<"c", ")">>}
           : <<o1, o2>> \in ChainOps \X ChainOps}

\* a o b o c o d, and the same with one group in parentheses
Chains3 ==
    UNION {{<<"a">> \o o1 \o <<"b">> \o o2 \o <<"c">> \o o3 \o <<"d">>,
            <<"a">> \o o1 \o <<"(", "b">> \o o2 \o <<"c">> \o o3 \o <<"d", ")">>,
            <<"a">> \o o1 \o <<"(", "b">> \o o2 \o <<"c", ")">> \o o3 \o <<"d">>,
            <<"(", "a">> \o o1 \o <<"b", ")">> \o o2 \o <<"(", "c">> \o o3 \o <<"d", ")">>}
           : <<o1, o2, o3>> \in ChainOps \X ChainOps \X ChainOps}

Examples == {t[1] : t \in tests} \cup DocExamples \cup Chains2 \cup Chains3

\* the string can still grow into an expression: it is one, or all it lacks
\* is at its end
Viable(text) ==
    LET lexed == tokenize(text)
        parsed == parse(lexed.tokens)
    IN  lexed.ok /\ (parsed.ok \/ parsed.pos >= Len(lexed.tokens))

(***************************************************************************)
(* The state: the string handed in, the fields of the Parser (tokens,      *)
(* pos), the field of the ExpressionFormatter (expression), what the last  *)
(* call raised and what format returned.                                   *)
(***************************************************************************)
(***************************************************************************)
(* Each program of the package runs on its own: while one of them is       *)
(* exercised the objects of the others do not exist.                       *)
(***************************************************************************)
\* what the last call on the list was given, what it raised or returned, and
\* the sequence the list stood for when it was called
ListOutcome(call, arg, raised, returned, before) ==
    [call |-> call, arg |-> arg, raised |-> raised, returned |-> returned,
     before |-> before]

FormatterIdle ==
    /\ expr_string = <<>>
    /\ budget = 0
    /\ stage = "idle"
    /\ tokens = <<>>
    /\ pos = 0
    /\ expression = NoExpression
    /\ error = ""
    /\ output = <<>>

FormulexIdle ==
    /\ fx_string = <<>>
    /\ fx_stage = "idle"
    /\ fx_tokens = <<>>
    /\ fx_position = 0
    /\ fx_node = None
    /\ fx_error = ""
    /\ fx_output = <<>>

ListIdle ==
    /\ list_head = None
    /\ list_abstract = <<>>
    /\ list_outcome = ListOutcome("idle", None, "", None, <<>>)

LinterIdle ==
    /\ lint_text = <<>>
    /\ lint_stage = "idle"
    /\ lint_errors = <<>>

SortIdle ==
    /\ sort_data = <<>>
    /\ sort_stage = "idle"
    /\ sort_result = <<>>

StepIdle ==
    /\ step_tokens = <<>>
    /\ step_pos = 0
    /\ step_stack = <<>>
    /\ step_stage = "idle"
    /\ step_result = NoExpression
    /\ step_error = ""

Init ==
    /\ \/ expr_string = <<>> /\ budget = MaxTyped
       \/ expr_string \in Examples /\ budget = 0
    /\ stage = "input"
    /\ tokens = <<>>
    /\ pos = 0
    /\ expression = NoExpression
    /\ error = ""
    /\ output = <<>>
    /\ FormulexIdle /\ ListIdle /\ LinterIdle /\ SortIdle /\ StepIdle

\* the caller writes one more lexeme of the input
Type ==
    /\ stage = "input"
    /\ budget > 0
    /\ \E lexeme \in Lexemes :
           /\ Viable(expr_string \o lexeme)
           /\ expr_string' = expr_string \o lexeme
    /\ budget' = budget - 1
    /\ UNCHANGED <<stage, tokens, pos, expression, error, output>>
    /\ UNCHANGED <<formulexVars, listVars, linterVars, sortVars, stepVars>>

\* Parser.__init__: tokens = list(tokenize(expression)), pos = 0
Parser_init ==
    /\ stage = "input"
    /\ LET lexed == tokenize(expr_string)
       IN  IF lexed.ok
           THEN /\ stage' = "tokenized"
                /\ tokens' = lexed.tokens
                /\ pos' = 0
                /\ error' = ""
           ELSE /\ stage' = "raised"
                /\ error' = "Unexpected character"
                /\ UNCHANGED <<tokens, pos>>
    /\ UNCHANGED <<expr_string, budget, expression, output>>
    /\ UNCHANGED <<formulexVars, listVars, linterVars, sortVars, stepVars>>

\* Parser.parse, its result kept as ExpressionFormatter.__init__ keeps it
Parser_parse ==
    /\ stage = "tokenized"
    /\ LET parsed == parse(tokens)
       IN  /\ pos' = parsed.pos
           /\ expression' = parsed.node
           /\ error' = parsed.error
           /\ stage' = IF parsed.ok THEN "parsed" ELSE "raised"
    /\ UNCHANGED <<expr_string, budget, tokens, output>>
    /\ UNCHANGED <<formulexVars, listVars, linterVars, sortVars, stepVars>>

\* ExpressionFormatter.__init__: Parser(expr_string).parse() in one call
ExpressionFormatter_init ==
    /\ stage = "input"
    /\ LET lexed == tokenize(expr_string)
           parsed == parse(lexed.tokens)
       IN  IF ~lexed.ok
           THEN /\ stage' = "raised"
                /\ error' = "Unexpected character"
                /\ UNCHANGED <<tokens, pos, expression>>
           ELSE /\ tokens' = lexed.tokens
                /\ pos' = parsed.pos
                /\ expression' = parsed.node
                /\ error' = parsed.error
                /\ stage' = IF parsed.ok THEN "parsed" ELSE "raised"
    /\ UNCHANGED <<expr_string, budget, output>>
    /\ UNCHANGED <<formulexVars, listVars, linterVars, sortVars, stepVars>>

\* ExpressionFormatter.format
ExpressionFormatter_format ==
    /\ stage = "parsed"
    /\ output' = format(expression, 0)
    /\ IF format(expression, 0) = FormatRaised
       THEN stage' = "raised" /\ error' = "ValueError"
       ELSE stage' = "formatted" /\ error' = ""
    /\ UNCHANGED <<expr_string, budget, tokens, pos, expression>>
    /\ UNCHANGED <<formulexVars, listVars, linterVars, sortVars, stepVars>>

Next ==
    \/ Type
    \/ Parser_init
    \/ Parser_parse
    \/ ExpressionFormatter_init
    \/ ExpressionFormatter_format

Spec == Init /\ [][Next]_vars

(***************************************************************************)
(* The same calls on inputs put together character by character with no    *)
(* regard to the grammar.                                                  *)
(***************************************************************************)
InitRaw ==
    /\ \/ expr_string = <<>> /\ budget = MaxRaw
       \/ expr_string \in DocExamples /\ budget = 0
    /\ stage = "input"
    /\ tokens = <<>>
    /\ pos = 0
    /\ expression = NoExpression
    /\ error = ""
    /\ output = <<>>
    /\ FormulexIdle /\ ListIdle /\ LinterIdle /\ SortIdle /\ StepIdle

TypeRaw ==
    /\ stage = "input"
    /\ budget > 0
    /\ \E c \in RawChars : expr_string' = expr_string \o c
    /\ budget' = budget - 1
    /\ UNCHANGED <<stage, tokens, pos, expression, error, output>>
    /\ UNCHANGED <<formulexVars, listVars, linterVars, sortVars, stepVars>>

NextRaw ==
    \/ TypeRaw
    \/ Parser_init
    \/ Parser_parse
    \/ ExpressionFormatter_init
    \/ ExpressionFormatter_format

SpecRaw == InitRaw /\ [][NextRaw]_vars

(***************************************************************************)
(* Notions the properties below are stated with.                           *)
(***************************************************************************)
\* the tree a fresh Parser gives for a text
Reparse(text) ==
    LET lexed == tokenize(text)
    IN  IF lexed.ok THEN parse(lexed.tokens) ELSE Raised("Unexpected character", lexed.at)

Done == stage = "formatted"

\* every node of a tree
RECURSIVE Subterms(_)
Subterms(node) ==
    {node} \cup
    (IF node.kind = "BinaryOp" THEN Subterms(node.left) \cup Subterms(node.right)
     ELSE IF node.kind = "UnaryOp" THEN Subterms(node.operand)
     ELSE IF node.kind = "FuncCall"
     THEN UNION {Subterms(node.args[i]) : i \in 1..Len(node.args)}
     ELSE {})

Prec(node) == OPERATORS[node.op][1]

IsOperand(tok) == tok[1] \in {"ID", "NUMBER"}

\* the leaf an operand token stands for
Leaf(tok) == IF tok[1] = "NUMBER" THEN Value(tok[2]) ELSE Variable(tok[2])

Spaced(op) == <<" ">> \o op \o <<" ">>

InParens(text) == <<"(">> \o text \o <<")">>

POW == <<"*", "*">>

\* the position of the closing parenthesis that matches the opening one at i
RECURSIVE ClosingAt(_, _, _)
ClosingAt(text, j, depth) ==
    IF j > Len(text) THEN 0
    ELSE IF text[j] \in {"(", "[", "{"} THEN ClosingAt(text, j + 1, depth + 1)
    ELSE IF text[j] \in {")", "]", "}"}
    THEN IF depth = 1 THEN j ELSE ClosingAt(text, j + 1, depth - 1)
    ELSE ClosingAt(text, j + 1, depth)

MatchingClose(text, i) == ClosingAt(text, i + 1, 1)

\* the text is one parenthesized group and nothing else
EnclosedWhole(text) ==
    Len(text) >= 2 /\ text[1] = "(" /\ MatchingClose(text, 1) = Len(text)

StartsWith(text, prefix) == HasAt(text, 1, prefix)

EndsWith(text, suffix) ==
    Len(suffix) <= Len(text) /\ HasAt(text, Len(text) - Len(suffix) + 1, suffix)

(***************************************************************************)
(* C1. Round trip: the text format returns parses, and parses to the tree  *)
(* it was formatted from.                                                  *)
(***************************************************************************)
C1_RoundTrip ==
    Done => Reparse(output).ok /\ Reparse(output).node = expression

C1_Witness ==
    /\ Done
    /\ expression.kind = "BinaryOp"
    /\ expression.left.kind = "BinaryOp"
    /\ Prec(expression.left) < Prec(expression)
    /\ output # expr_string
    /\ Reparse(output).node = expression

(***************************************************************************)
(* C2. Minimality.  The parentheses BinaryOp.format writes are told apart  *)
(* by formatting the tree with "[" "]" for those around a child and "{"    *)
(* "}" for those around the expression itself; deleting a pair and         *)
(* reading the rest as parentheses gives the text with that pair removed.  *)
(***************************************************************************)
Marks == [child |-> <<"[", "]">>, own |-> <<"{", "}">>]

Marked(node) == format_node(node, 0, Marks)

Plain(text) ==
    [i \in 1..Len(text) |->
        IF text[i] \in {"[", "{"} THEN "("
        ELSE IF text[i] \in {"]", "}"} THEN ")"
        ELSE text[i]]

\* the text without the pair of parentheses that opens at i
WithoutPair(text, i) ==
    LET j == MatchingClose(text, i)
    IN  Plain(SubSeq(text, 1, i - 1) \o SubSeq(text, i + 1, j - 1)
                  \o SubSeq(text, j + 1, Len(text)))

InsertedPairs(text) == {i \in 1..Len(text) : text[i] \in {"[", "{"}}

\* the pairs around an operand of strictly lower precedence than its parent:
\* the operand writes them itself and the parent adds none
LowerOperandPairs(text) ==
    {i \in 1..Len(text) :
        /\ text[i] = "{"
        /\ ~(CharAt(text, i - 1) = "["
             /\ MatchingClose(text, i - 1) = MatchingClose(text, i) + 1)}

\* the binary operands of strictly lower precedence than their parent
RECURSIVE CountLowerOperands(_)
CountLowerOperands(node) ==
    IF node.kind = "BinaryOp"
    THEN (IF node.left.kind = "BinaryOp" /\ Prec(node.left) < Prec(node) THEN 1 ELSE 0)
         + (IF node.right.kind = "BinaryOp" /\ Prec(node.right) < Prec(node) THEN 1 ELSE 0)
         + CountLowerOperands(node.left) + CountLowerOperands(node.right)
    ELSE IF node.kind = "UnaryOp" THEN CountLowerOperands(node.operand)
    ELSE IF node.kind = "FuncCall" /\ Len(node.args) > 0
    THEN LET counts[i \in 0..Len(node.args)] ==
                 IF i = 0 THEN 0 ELSE counts[i - 1] + CountLowerOperands(node.args[i])
         IN  counts[Len(node.args)]
    ELSE 0

\* C2 as claimed: deleting any pair BinaryOp.format inserted changes the parse
C2_Minimality ==
    Done =>
        /\ Plain(Marked(expression)) = output
        /\ \A i \in InsertedPairs(Marked(expression)) :
               Reparse(WithoutPair(Marked(expression), i)).node # expression

\* C2 amended: deleting the pair around a binary operand of strictly lower
\* precedence than its parent's operator changes the parse
C2_LowerOperandPairsNeeded ==
    Done =>
        /\ Plain(Marked(expression)) = output
        /\ Cardinality(LowerOperandPairs(Marked(expression)))
               = CountLowerOperands(expression)
        /\ \A i \in LowerOperandPairs(Marked(expression)) :
               Reparse(WithoutPair(Marked(expression), i)).node # expression

C2_Witness ==
    /\ Done
    /\ LowerOperandPairs(Marked(expression)) # {}
    /\ InsertedPairs(Marked(expression)) # LowerOperandPairs(Marked(expression))
    /\ \E i \in LowerOperandPairs(Marked(expression)) :
           /\ Reparse(WithoutPair(Marked(expression), i)).ok
           /\ Reparse(WithoutPair(Marked(expression), i)).node # expression

(***************************************************************************)
(* C3. Right associativity: x ** y ** z parses to x ** (y ** z) and is     *)
(* formatted as "x ** (y ** z)".                                           *)
(***************************************************************************)
PowerChain ==
    /\ Len(tokens) = 5
    /\ IsOperand(tokens[1]) /\ IsOperand(tokens[3]) /\ IsOperand(tokens[5])
    /\ tokens[2] = <<"OP", POW>> /\ tokens[4] = <<"OP", POW>>

C3_RightAssociativity ==
    (Done /\ PowerChain) =>
        /\ expression =
               BinaryOp(Leaf(tokens[1]), POW, BinaryOp(Leaf(tokens[3]), POW, Leaf(tokens[5])))
        /\ output =
               tokens[1][2] \o Spaced(POW)
                   \o InParens(tokens[3][2] \o Spaced(POW) \o tokens[5][2])

(***************************************************************************)
(* C4. Precedence rendering: an operand of a binary operator that is       *)
(* itself a binary operation of another precedence is written inside       *)
(* exactly one pair of parentheses.                                        *)
(***************************************************************************)
C4_Examples ==
    {
     <<<<"a", " ", "+", " ", "b", " ", "*", " ", "c">>,
       <<"a", " ", "+", " ", "(", "b", " ", "*", " ", "c", ")">>>>,
     <<<<"a", " ", "*", " ", "b", " ", "+", " ", "c">>,
       <<"(", "a", " ", "*", " ", "b", ")", " ", "+", " ", "c">>>>,
     <<<<"a", " ", "a", "n", "d", " ", "b", " ", "o", "r", " ", "c">>,
       <<"(", "a", " ", "a", "n", "d", " ", "b", ")", " ", "o", "r", " ", "c">>>>,
     <<<<"a", " ", "*", "*", " ", "b", " ", "*", " ", "c">>,
       <<"(", "a", " ", "*", "*", " ", "b", ")", " ", "*", " ", "c">>>>,
     <<<<"(", "a", " ", "+", " ", "b", ")", " ", "*", " ", "c">>,
       <<"(", "a", " ", "+", " ", "b", ")", " ", "*", " ", "c">>>>
    }

OtherPrecedence(parent, child) ==
    child.kind = "BinaryOp" /\ Prec(child) # Prec(parent)

C4_PrecedenceRendering ==
    Done =>
        /\ \A n \in Subterms(expression) :
               n.kind = "BinaryOp" =>
                   /\ OtherPrecedence(n, n.left) =>
                          /\ StartsWith(format(n, 0),
                                        InParens(format(n.left, 0)) \o Spaced(n.op))
                          /\ ~EnclosedWhole(format(n.left, 0))
                   /\ OtherPrecedence(n, n.right) =>
                          /\ EndsWith(format(n, 0),
                                      Spaced(n.op) \o InParens(format(n.right, 0)))
                          /\ ~EnclosedWhole(format(n.right, 0))
        /\ \A t \in C4_Examples : expr_string = t[1] => output = t[2]

C4_Witness ==
    /\ Done
    /\ expression.kind = "BinaryOp"
    /\ OtherPrecedence(expression, expression.left)
    /\ OtherPrecedence(expression, expression.right)
    /\ Prec(expression.left) < Prec(expression)
    /\ Prec(expression.right) > Prec(expression)

(***************************************************************************)
(* C5. Left associativity: a chain e1 op1 e2 op2 e3 of left-associative    *)
(* operators of one precedence, its operands identifiers or numerals,      *)
(* parses to (e1 op1 e2) op2 e3 and is formatted with no parentheses.      *)
(***************************************************************************)
LeftChain ==
    /\ Len(tokens) = 5
    /\ IsOperand(tokens[1]) /\ IsOperand(tokens[3]) /\ IsOperand(tokens[5])
    /\ tokens[2][1] = "OP" /\ tokens[4][1] = "OP"
    /\ tokens[2][2] \in DOMAIN OPERATORS /\ tokens[4][2] \in DOMAIN OPERATORS
    /\ OPERATORS[tokens[2][2]][2] = "L" /\ OPERATORS[tokens[4][2]][2] = "L"
    /\ OPERATORS[tokens[2][2]][1] = OPERATORS[tokens[4][2]][1]

C5_LeftAssociativity ==
    (Done /\ LeftChain) =>
        /\ expression =
               BinaryOp(BinaryOp(Leaf(tokens[1]), tokens[2][2], Leaf(tokens[3])),
                        tokens[4][2], Leaf(tokens[5]))
        /\ output =
               tokens[1][2] \o Spaced(tokens[2][2]) \o tokens[3][2]
                   \o Spaced(tokens[4][2]) \o tokens[5][2]

C5_Witness ==
    Done /\ LeftChain /\ tokens[2] # tokens[4] /\ "(" \notin {output[i] : i \in 1..Len(output)}

(***************************************************************************)
(* C6. A unary minus that is the operand of a binary operator is written   *)
(* "(-x)": -a + b is formatted as "(-a) + b".                               *)
(***************************************************************************)
NegatedLeft ==
    /\ Len(tokens) = 4
    /\ tokens[1] = <<"OP", MINUS>>
    /\ IsOperand(tokens[2])
    /\ tokens[3][1] = "OP" /\ tokens[3][2] \in DOMAIN OPERATORS
    /\ IsOperand(tokens[4])

C6_UnaryMinusOperand ==
    (Done /\ NegatedLeft) =>
        output = InParens(MINUS \o tokens[2][2]) \o Spaced(tokens[3][2]) \o tokens[4][2]

(***************************************************************************)
(* C7. Call rendering: a call or unary node is written name(arguments),    *)
(* the arguments in order and joined by ", ", none of them inside          *)
(* parentheses of its own.                                                 *)
(***************************************************************************)
C7_Examples ==
    {
     <<<<"r", "o", "u", "n", "d", "(", "a", " ", "+", " ", "b", ",", " ", "2", ")">>,
       <<"r", "o", "u", "n", "d", "(", "a", " ", "+", " ", "b", ",", " ", "2", ")">>>>,
     <<<<"-", "a", "b", "s", "(", "a", " ", "-", " ", "b", ")">>,
       <<"-", "(", "a", "b", "s", "(", "a", " ", "-", " ", "b", ")", ")">>>>,
     <<<<"a", "b", "s", "(", "a", " ", "+", " ", "b", " ", "*", " ", "c", ")">>,
       <<"a", "b", "s", "(", "a", " ", "+", " ", "(", "b", " ", "*", " ", "c", ")", ")">>>>,
     <<<<"f", "(", ")">>,
       <<"f", "(", ")">>>>
    }

RECURSIVE CommaSeparated(_)
CommaSeparated(parts) ==
    IF Len(parts) = 0 THEN <<>>
    ELSE IF Len(parts) = 1 THEN parts[1]
    ELSE parts[1] \o <<",", " ">> \o CommaSeparated(Tail(parts))

\* the name and the arguments of a call or unary node
CallName(n) == IF n.kind = "UnaryOp" THEN n.op ELSE n.name

CallArgs(n) == IF n.kind = "UnaryOp" THEN <<n.operand>> ELSE n.args

IsCall(n) == n.kind \in {"UnaryOp", "FuncCall"}

C8_Examples ==
    {
     <<<<"a", " ", "b">>, "Unexpected token after end of expression">>,
     <<<<"a", " ", "+", " ", "b", " ", ")">>, "Unexpected token after end of expression">>,
     <<<<"(", "a", " ", "+", " ", "b">>, "Expected">>,
     <<<<"f", "(", "a", " ", "b", ")">>, "Expected">>,
     <<<<"a", " ", "+">>, "Unexpected token">>,
     <<<<>>, "Unexpected token">>
    }

ParseCalled == stage \in {"parsed", "formatted"} \/ (stage = "raised" /\ error # "Unexpected character")

C8_AllOrNothing ==
    /\ stage \in {"parsed", "formatted"} =>
           /\ pos = Len(tokens)
           /\ expression # NoExpression
           /\ error = ""
    /\ (stage = "raised" /\ error # "ValueError") =>
           /\ expression = NoExpression
           /\ error \in {"Unexpected character", "Unexpected token after end of expression",
                         "Expected", "Unexpected operator in primary", "Unexpected token"}
    /\ (stage = "raised" /\ error = "Unexpected token after end of expression") =>
           pos < Len(tokens) /\ parse_expression(tokens, 0, 1).ok
    /\ (stage = "raised" /\ error = "Expected") =>
           current(tokens, pos) # <<"OP", RPAREN>>
    /\ (stage = "raised" /\ error = "Unexpected token") =>
           current(tokens, pos)[1] \in {"EOF", "COMMA"}
    /\ \A t \in C8_Examples :
           (expr_string = t[1] /\ ParseCalled) => (stage = "raised" /\ error = t[2])

C8_Witness ==
    /\ stage = "raised"
    /\ error = "Unexpected token after end of expression"
    /\ pos > 0
    /\ tokens[pos + 1] = <<"OP", RPAREN>>

(***************************************************************************)
(* C9. Lexical errors: no character is passed over; when tokenize          *)
(* completes, every character of the input is a space or tab or belongs to *)
(* a token, and when it raises, the input holds a character that is        *)
(* neither a space or tab nor one an operator, numeral, identifier or      *)
(* comma can hold.                                                         *)
(***************************************************************************)
RECURSIVE TotalLength(_)
TotalLength(toks) == IF toks = <<>> THEN 0 ELSE Len(toks[1][2]) + TotalLength(Tail(toks))

SpacesIn(text) == Cardinality({i \in 1..Len(text) : text[i] \in SpaceChars})

Tokenized == stage # "input" /\ error # "Unexpected character"

C9_NoCharacterSkipped ==
    /\ Tokenized => Len(expr_string) = SpacesIn(expr_string) + TotalLength(tokens)
    /\ (stage = "raised" /\ error = "Unexpected character") =>
           \E i \in 1..Len(expr_string) : expr_string[i] \notin SpaceChars \cup WordChars
                                              \cup SingleOpChars \cup {","}

(***************************************************************************)
(* C10. The formatter is total on the trees the parser returns: every      *)
(* BinaryOp carries a registered operator and format never raises.         *)
(***************************************************************************)
C10_FormatterTotal ==
    /\ stage \in {"parsed", "formatted"} =>
           /\ \A n \in Subterms(expression) :
                  n.kind = "BinaryOp" => OperatorMeta_contains(n.op)
           /\ format(expression, 0) # FormatRaised
    /\ error # "ValueError"
    /\ Done => output = format(expression, 0)

C10_Witness ==
    /\ Done
    /\ expression.kind = "BinaryOp"
    /\ \E i \in 1..Len(tokens) : tokens[i][1] = "OP" /\ tokens[i][2] \notin DOMAIN OPERATORS

(***************************************************************************)
(* A model of grokking_algorithms/formulex.py: the Operator enumeration,   *)
(* the ExpressionNode tree, the ExpressionParser and the                   *)
(* ExpressionFormatter of that file.  A token is the text it was cut from. *)
(***************************************************************************)
\* typed lexemes of an input of the formulex parser
MaxFormulex == 4

\* Operator: ADD, SUBTRACT, MULTIPLY, DIVIDE
Operator == {<<"+">>, <<"-">>, <<"*">>, <<"/">>}

\* Operator.precedence
Operator_precedence(op) == IF op \in {<<"+">>, <<"-">>} THEN 1 ELSE 2

\* ExpressionNode(value, left, right)
ExpressionNode(value, left, right) ==
    [value |-> value, left |-> left, right |-> right]

\* ExpressionNode.is_operator
is_operator(node) == node.value \in Operator

\* ExpressionNode.precedence
precedence(node) ==
    IF is_operator(node) THEN Operator_precedence(node.value) ELSE 3

\* expression.replace(" ", "")
RECURSIVE replace_spaces(_)
replace_spaces(text) ==
    IF text = <<>> THEN <<>>
    ELSE IF Head(text) = " " THEN replace_spaces(Tail(text))
    ELSE <<Head(text)>> \o replace_spaces(Tail(text))

\* [()+\-*/]
FormulexSymbolChars == {"(", ")", "+", "-", "*", "/"}

\* the length the pattern of _tokenize matches at position i, 0 for no match
formulex_match_len(s, i) ==
    IF CharAt(s, i) \in IdStartChars THEN 1 + RunLen(s, i + 1, WordChars)
    ELSE IF CharAt(s, i) \in Digits THEN RunLen(s, i, Digits)
    ELSE IF CharAt(s, i) \in FormulexSymbolChars THEN 1
    ELSE 0

\* re.findall: the matches from left to right, what matches nothing passed over
RECURSIVE formulex_findall(_, _)
formulex_findall(s, i) ==
    IF i > Len(s) THEN <<>>
    ELSE LET n == formulex_match_len(s, i)
         IN  IF n = 0 THEN formulex_findall(s, i + 1)
             ELSE <<SubSeq(s, i, i + n - 1)>> \o formulex_findall(s, i + n)

\* ExpressionParser._tokenize
formulex_tokenize(text) == formulex_findall(replace_spaces(text), 1)

\* what a parsing method hands back: the node and the cursor, or the exception
FormulexReturned(node, p) ==
    [ok |-> TRUE, node |-> node, position |-> p, error |-> ""]

FormulexRaised(exception, p) ==
    [ok |-> FALSE, node |-> None, position |-> p, error |-> exception]

\* ExpressionParser._has_remaining_tokens
has_remaining_tokens(toks, p) == p < Len(toks)

\* ExpressionParser._current_token, read only where the index is in range
current_token(toks, p) == toks[p + 1]

\* ExpressionParser._advance_position
advance_position(p) == p + 1

RECURSIVE formulex_parse_expression(_, _, _)
RECURSIVE formulex_parse_expression_loop(_, _, _, _)
RECURSIVE formulex_parse_term(_, _)

\* the while loop of ExpressionParser._parse_expression
formulex_parse_expression_loop(toks, p, node, min_precedence) ==
    IF ~(has_remaining_tokens(toks, p) /\ current_token(toks, p) \in Operator)
    THEN FormulexReturned(node, p)
    ELSE LET operator == current_token(toks, p)
             prec == Operator_precedence(operator)
         IN  IF prec < min_precedence THEN FormulexReturned(node, p)
             ELSE LET right == formulex_parse_expression(
                                   toks, advance_position(p), prec + 1)
                  IN  IF ~right.ok THEN right
                      ELSE formulex_parse_expression_loop(
                               toks, right.position,
                               ExpressionNode(operator, node, right.node),
                               min_precedence)

\* ExpressionParser._parse_expression
formulex_parse_expression(toks, p, min_precedence) ==
    LET term == formulex_parse_term(toks, p)
    IN  IF ~term.ok THEN term
        ELSE formulex_parse_expression_loop(
                 toks, term.position, term.node, min_precedence)

\* ExpressionParser._parse_term
formulex_parse_term(toks, p) ==
    IF ~(p < Len(toks)) THEN FormulexRaised("IndexError", p)
    ELSE LET token == current_token(toks, p)
         IN  IF token = <<"(">>
             THEN LET inner == formulex_parse_expression(
                                   toks, advance_position(p), 0)
                  IN  IF ~inner.ok THEN inner
                      ELSE IF \/ ~has_remaining_tokens(toks, inner.position)
                              \/ current_token(toks, inner.position) # <<")">>
                           THEN FormulexRaised("ValueError", inner.position)
                      ELSE FormulexReturned(
                               inner.node, advance_position(inner.position))
             ELSE FormulexReturned(
                      ExpressionNode(token, None, None), advance_position(p))

\* ExpressionParser.parse
formulex_parse(toks) == formulex_parse_expression(toks, 0, 0)

\* the value of format when a child that is None is formatted
FormulexFormatRaised == <<"AttributeError">>

\* value in specific_ops, between strings
str_contains(value, specific_ops) ==
    \E i \in 1..(Len(specific_ops) + 1) : HasAt(specific_ops, i, value)

\* ExpressionFormatter._add_parentheses_if_needed
add_parentheses_always(node, formatted, specific_ops) ==
    IF is_operator(node) THEN <<"(">> \o formatted \o <<")">> ELSE formatted

add_parentheses_if_needed(node, formatted, specific_ops) ==
    IF is_operator(node)
       /\ (specific_ops = <<>> \/ str_contains(node.value, specific_ops))
    THEN <<"(">> \o formatted \o <<")">>
    ELSE formatted

\* ExpressionFormatter.format of formulex.py
RECURSIVE formulex_format(_, _)
formulex_format(node, parent_precedence) ==
    IF node = None THEN FormulexFormatRaised
    ELSE IF ~is_operator(node) THEN node.value
    ELSE LET left_formatted == formulex_format(node.left, precedence(node))
             right_formatted == formulex_format(node.right, precedence(node))
         IN  IF left_formatted = FormulexFormatRaised THEN FormulexFormatRaised
             ELSE IF right_formatted = FormulexFormatRaised
                  THEN FormulexFormatRaised
             ELSE LET add_sub == node.value \in {<<"+">>, <<"-">>}
                      l == IF add_sub
                           THEN add_parentheses_if_needed(
                                    node.left, left_formatted, <<"*", "/">>)
                           ELSE left_formatted
                      r == IF add_sub
                           THEN add_parentheses_if_needed(
                                    node.right, right_formatted, <<>>)
                           ELSE right_formatted
                      expr == l \o node.value \o r
                  IN  IF precedence(node) < parent_precedence
                      THEN <<"(">> \o expr \o <<")">>
                      ELSE expr

(***************************************************************************)
(* Inputs of formulex: every text of at most MaxFormulex lexemes, the      *)
(* cases of tests/test_formulex.py, and operators chained and grouped in   *)
(* every way.                                                              *)
(***************************************************************************)
FormulexLexemes ==
    {<<"a">>, <<"2">>, <<"-">>, <<"*">>, <<"/">>, <<"(">>, <<")">>}

RECURSIVE FormulexTyped(_)
FormulexTyped(n) ==
    IF n = 0 THEN {<<>>}
    ELSE LET shorter == FormulexTyped(n - 1)
         IN  shorter \cup {t \o lexeme : t \in shorter, lexeme \in FormulexLexemes}

\* test_formulex.py: the parametrized pairs of expression and expected text
formulex_tests ==
    {
     <<<<"a", "+", "b">>,
       <<"a", "+", "b">>>>,
     <<<<"a", "+", "b", "*", "c">>,
       <<"a", "+", "(", "b", "*", "c", ")">>>>,
     <<<<"a", "*", "b", "+", "c", "/", "d">>,
       <<"(", "a", "*", "b", ")", "+", "(", "c", "/", "d", ")">>>>,
     <<<<"a", "+", "(", "b", "-", "c", ")", "*", "d">>,
       <<"a", "+", "(", "(", "b", "-", "c", ")", "*", "d", ")">>>>,
     <<<<"(", "a", "+", "b", ")", "*", "(", "c", "-", "d", ")">>,
       <<"(", "a", "+", "b", ")", "*", "(", "c", "-", "d", ")">>>>,
     <<<<"v", "a", "r", "1", "+", "v", "a", "r", "2", "*", "c", "o", "u", "n", "t">>,
       <<"v", "a", "r", "1", "+", "(", "v", "a", "r", "2", "*", "c", "o", "u", "n", "t", ")">>>>,
     <<<<"x">>,
       <<"x">>>>,
     <<<<"x", "1", "*", "y", "2", "+", "(", "a", "-", "b", "/", "c", ")">>,
       <<"(", "x", "1", "*", "y", "2", ")", "+", "(", "a", "-", "(", "b", "/", "c", ")", ")">>>>,
     <<<<" ", " ", "a", " ", "+", " ", "b", " ", "*", " ", "c", " ", "-", " ", "d", " ", "/", " ", "e", " ">>,
       <<"a", "+", "(", "b", "*", "c", ")", "-", "(", "d", "/", "e", ")">>>>
    }

FormulexChains2 ==
    LET A == <<"a">>
        B == <<"b">>
        C == <<"c">>
        O == <<"(">>
        X == <<")">>
    IN  UNION {{A \o o1 \o B \o o2 \o C,
                A \o o1 \o O \o B \o o2 \o C \o X,
                O \o A \o o1 \o B \o X \o o2 \o C} :
               o1 \in Operator, o2 \in Operator}

FormulexChains3 ==
    LET A == <<"a">>
        B == <<"b">>
        C == <<"c">>
        D == <<"d">>
        O == <<"(">>
        X == <<")">>
    IN  UNION {{A \o o1 \o B \o o2 \o C \o o3 \o D,
                A \o o1 \o O \o B \o o2 \o O \o C \o o3 \o D \o X \o X,
                A \o o1 \o O \o O \o B \o o2 \o C \o X \o o3 \o D \o X,
                O \o A \o o1 \o B \o X \o o2 \o O \o C \o o3 \o D \o X,
                O \o A \o o1 \o O \o B \o o2 \o C \o X \o X \o o3 \o D} :
               o1 \in Operator, o2 \in {<<"-">>, <<"*">>}, o3 \in Operator}

\* inputs whose parentheses do not pair up
FormulexMismatched ==
    {<<"(", "a", "+", "b">>, <<"(">>, <<"a", "+", "b", ")">>, <<")">>,
     <<"(", "(", "a", ")">>, <<"a", "*", "(", "b">>}

FormulexInputs ==
    FormulexTyped(MaxFormulex) \cup {t[1] : t \in formulex_tests}
        \cup FormulexChains2 \cup FormulexChains3 \cup FormulexMismatched

InitFormulex ==
    /\ fx_string \in FormulexInputs
    /\ fx_stage = "input"
    /\ fx_tokens = <<>>
    /\ fx_position = 0
    /\ fx_node = None
    /\ fx_error = ""
    /\ fx_output = <<>>
    /\ FormatterIdle /\ ListIdle /\ LinterIdle /\ SortIdle /\ StepIdle

\* ExpressionParser.__init__
ExpressionParser_init ==
    /\ fx_stage = "input"
    /\ fx_tokens' = formulex_tokenize(fx_string)
    /\ fx_position' = 0
    /\ fx_stage' = "tokenized"
    /\ UNCHANGED <<fx_string, fx_node, fx_error, fx_output>>
    /\ UNCHANGED <<formatterVars, listVars, linterVars, sortVars, stepVars>>

\* ExpressionParser.parse
ExpressionParser_parse ==
    /\ fx_stage = "tokenized"
    /\ LET parsed == formulex_parse(fx_tokens)
       IN  /\ fx_position' = parsed.position
           /\ fx_node' = parsed.node
           /\ fx_error' = parsed.error
           /\ fx_stage' = IF parsed.ok THEN "parsed" ELSE "raised"
    /\ UNCHANGED <<fx_string, fx_tokens, fx_output>>
    /\ UNCHANGED <<formatterVars, listVars, linterVars, sortVars, stepVars>>

\* ExpressionFormatter().format(tree) of formulex.py
Formulex_format ==
    /\ fx_stage = "parsed"
    /\ fx_output' = formulex_format(fx_node, 0)
    /\ IF formulex_format(fx_node, 0) = FormulexFormatRaised
       THEN fx_stage' = "raised" /\ fx_error' = "AttributeError"
       ELSE fx_stage' = "formatted" /\ fx_error' = ""
    /\ UNCHANGED <<fx_string, fx_tokens, fx_position, fx_node>>
    /\ UNCHANGED <<formatterVars, listVars, linterVars, sortVars, stepVars>>

NextFormulex ==
    \/ ExpressionParser_init
    \/ ExpressionParser_parse
    \/ Formulex_format

SpecFormulex == InitFormulex /\ [][NextFormulex]_vars

(***************************************************************************)
(* Claims on formulex.py.                                                  *)
(***************************************************************************)
FormulexDone == fx_stage = "formatted"

AddSub == {<<"+">>, <<"-">>}

MulDiv == {<<"*">>, <<"/">>}

InOnePair(text) == <<"(">> \o text \o <<")">>

\* the bracketing rule as stated: which operands stand in a pair of
\* parentheses under which operator
RECURSIVE BracketingRule(_)
BracketingRule(node) ==
    IF node.left = None THEN node.value
    ELSE LET l == BracketingRule(node.left)
             r == BracketingRule(node.right)
             wrap_left == IF node.value \in AddSub
                          THEN node.left.left # None /\ node.left.value \in MulDiv
                          ELSE node.left.left # None /\ node.left.value \in AddSub
             wrap_right == IF node.value \in AddSub
                           THEN node.right.left # None
                           ELSE node.right.left # None /\ node.right.value \in AddSub
         IN  (IF wrap_left THEN InOnePair(l) ELSE l)
                 \o node.value
                 \o (IF wrap_right THEN InOnePair(r) ELSE r)

FormulexReparse(text) == formulex_parse(formulex_tokenize(text)).node

\* C19: parsing the text formulex formatted yields a tree structurally equal
\* to the tree that was formatted, whichever way the input was grouped.
C19_FormulexRoundTrip ==
    FormulexDone => FormulexReparse(fx_output) = fx_node

\* the depth of open parentheses after each token is never negative and is
\* zero after the last
RECURSIVE ParenthesesPairUp(_, _)
ParenthesesPairUp(toks, depth) ==
    IF toks = <<>> THEN depth = 0
    ELSE IF Head(toks) = <<"(">> THEN ParenthesesPairUp(Tail(toks), depth + 1)
    ELSE IF Head(toks) = <<")">>
         THEN depth > 0 /\ ParenthesesPairUp(Tail(toks), depth - 1)
    ELSE ParenthesesPairUp(Tail(toks), depth)

FormulexParseCalled == fx_stage \in {"parsed", "formatted", "raised"}

\* C20: when the parentheses of the input do not pair up, whether a `(` has
\* no `)` or a `)` has no `(`, parse raises ValueError and returns no tree.
C20_MismatchedRaisesValueError ==
    (FormulexParseCalled /\ ~ParenthesesPairUp(fx_tokens, 0)) =>
        /\ fx_node = None
        /\ fx_error = "ValueError"

(***************************************************************************)
(* A model of grokking_algorithms/linked_lists/single_linked_list.py.  A   *)
(* Node is the record of its data and its next node; the list is its head  *)
(* node, or None.                                                          *)
(***************************************************************************)
\* the most elements the list is grown to
MaxList == 4

\* the data stored in the nodes
ListData == {"x", "y", "z"}

\* Node(data, next)
Node(data, next) == [data |-> data, next |-> next]

\* Node.has_next
has_next(node) == node.next # None

\* Node.append
Node_append(node, next_node) == [node EXCEPT !.next = next_node]

\* SingleLinkedList.is_empty
is_empty(head) == head = None

\* SingleLinkedList.__iter__: the data of the nodes from head on
RECURSIVE iter(_)
iter(cur) ==
    IF cur = None THEN <<>> ELSE <<cur.data>> \o iter(cur.next)

\* SingleLinkedList.__len__
RECURSIVE len(_)
len(cur) == IF cur = None THEN 0 ELSE 1 + len(cur.next)

\* SingleLinkedList.size
size(head) == len(head)

\* SingleLinkedList.insert_to_front: the new head
insert_to_front(head, data) ==
    IF is_empty(head) THEN Node(data, None) ELSE Node(data, head)

\* the while loop of insert_to_back: the node cur once the last node
\* reached from it has new_node appended
RECURSIVE append_to_last(_, _)
append_to_last(cur, new_node) ==
    IF has_next(cur)
    THEN [cur EXCEPT !.next = append_to_last(cur.next, new_node)]
    ELSE Node_append(cur, new_node)

\* SingleLinkedList.insert_to_back: the new head
insert_to_back_as_front(head, data) == Node(data, head)

insert_to_back(head, data) ==
    IF head = None THEN Node(data, None)
    ELSE append_to_last(head, Node(data, None))

\* what a call hands back: the head after it, what it raised, what it returned
ListResult(head, raised, returned) ==
    [head |-> head, raised |-> raised, returned |-> returned]

\* the loop of get: index steps from cur
RECURSIVE get_walk(_, _, _)
get_walk(head, cur, steps) ==
    IF cur = None THEN ListResult(head, "IndexError", None)
    ELSE IF steps = 0 THEN ListResult(head, "", cur.data)
    ELSE get_walk(head, cur.next, steps - 1)

\* SingleLinkedList.get
get_last_when_beyond(head, index) ==
    IF index < 0 THEN ListResult(head, "IndexError", None)
    ELSE get_walk(head, head, IF index < len(head) THEN index ELSE len(head) - 1)

get(head, index) ==
    IF index < 0 THEN ListResult(head, "IndexError", None)
    ELSE get_walk(head, head, index)

\* the loop of delete from cur on: the nodes from cur on with the
\* first node holding target unlinked, or the ValueError
RECURSIVE delete_walk(_, _)
delete_walk(cur, target) ==
    IF cur = None THEN ListResult(None, "ValueError", None)
    ELSE IF cur.data = target THEN ListResult(cur.next, "", None)
    ELSE LET rest == delete_walk(cur.next, target)
         IN  IF rest.raised # "" THEN rest
             ELSE ListResult(Node_append(cur, rest.head), "", None)

\* SingleLinkedList.delete
delete(head, target) ==
    LET walked == delete_walk(head, target)
    IN  IF walked.raised # "" THEN ListResult(head, walked.raised, None)
        ELSE walked

\* SingleLinkedList.delete_from_front
delete_from_front(head) ==
    IF len(head) = 0 THEN ListResult(head, "ValueError", None)
    ELSE ListResult(head.next, "", head.data)

(***************************************************************************)
(* The sequence operations the list stands for.                            *)
(***************************************************************************)
Prepended(seq, d) == <<d>> \o seq

Appended(seq, d) == seq \o <<d>>

Occurs(seq, d) == \E i \in 1..Len(seq) : seq[i] = d

FirstOccurrence(seq, d) ==
    CHOOSE i \in 1..Len(seq) : seq[i] = d /\ \A j \in 1..(i - 1) : seq[j] # d

WithoutFirst(seq, d) ==
    IF Occurs(seq, d)
    THEN SubSeq(seq, 1, FirstOccurrence(seq, d) - 1)
             \o SubSeq(seq, FirstOccurrence(seq, d) + 1, Len(seq))
    ELSE seq

InitList ==
    /\ list_head = None
    /\ list_abstract = <<>>
    /\ list_outcome = ListOutcome("__init__", None, "", None, <<>>)
    /\ FormatterIdle /\ FormulexIdle /\ LinterIdle /\ SortIdle /\ StepIdle

SingleLinkedList_insert_to_front ==
    /\ list_outcome.call # "idle"
    /\ len(list_head) < MaxList
    /\ \E data \in ListData :
           /\ list_head' = insert_to_front(list_head, data)
           /\ list_abstract' = Prepended(list_abstract, data)
           /\ list_outcome' = ListOutcome("insert_to_front", data, "", None,
                                          list_abstract)
    /\ UNCHANGED <<formatterVars, formulexVars, linterVars, sortVars, stepVars>>

SingleLinkedList_insert_to_back ==
    /\ list_outcome.call # "idle"
    /\ len(list_head) < MaxList
    /\ \E data \in ListData :
           /\ list_head' = insert_to_back(list_head, data)
           /\ list_abstract' = Appended(list_abstract, data)
           /\ list_outcome' = ListOutcome("insert_to_back", data, "", None,
                                          list_abstract)
    /\ UNCHANGED <<formatterVars, formulexVars, linterVars, sortVars, stepVars>>

SingleLinkedList_get ==
    /\ list_outcome.call # "idle"
    /\ \E index \in (0 - 1)..MaxList :
           LET got == get(list_head, index)
           IN  /\ list_head' = got.head
               /\ list_outcome' = ListOutcome("get", index, got.raised,
                                              got.returned, list_abstract)
    /\ UNCHANGED list_abstract
    /\ UNCHANGED <<formatterVars, formulexVars, linterVars, sortVars, stepVars>>

SingleLinkedList_delete ==
    /\ list_outcome.call # "idle"
    /\ \E target \in ListData :
           LET deleted == delete(list_head, target)
           IN  /\ list_head' = deleted.head
               /\ list_abstract' = WithoutFirst(list_abstract, target)
               /\ list_outcome' = ListOutcome("delete", target, deleted.raised,
                                              None, list_abstract)
    /\ UNCHANGED <<formatterVars, formulexVars, linterVars, sortVars, stepVars>>

SingleLinkedList_delete_from_front ==
    /\ list_outcome.call # "idle"
    /\ LET deleted == delete_from_front(list_head)
       IN  /\ list_head' = deleted.head
           /\ list_abstract' = IF list_abstract = <<>> THEN <<>>
                               ELSE Tail(list_abstract)
           /\ list_outcome' = ListOutcome("delete_from_front", None,
                                          deleted.raised, deleted.returned,
                                          list_abstract)
    /\ UNCHANGED <<formatterVars, formulexVars, linterVars, sortVars, stepVars>>

NextList ==
    \/ SingleLinkedList_insert_to_front
    \/ SingleLinkedList_insert_to_back
    \/ SingleLinkedList_get
    \/ SingleLinkedList_delete
    \/ SingleLinkedList_delete_from_front

SpecList == InitList /\ [][NextList]_vars

\* C12: the list stands for a sequence: insert_to_front prepends,
\* insert_to_back appends, delete removes the first occurrence of its target,
\* delete_from_front removes and returns the first element; len() and size()
\* are the sequence's length and is_empty() holds exactly when it is empty.
C12_RefinesSequence ==
    /\ iter(list_head) = list_abstract
    /\ len(list_head) = Len(list_abstract)
    /\ size(list_head) = Len(list_abstract)
    /\ is_empty(list_head) <=> list_abstract = <<>>
    /\ (list_outcome.call = "delete_from_front" /\ list_outcome.before # <<>>) =>
           /\ list_outcome.raised = ""
           /\ list_outcome.returned = Head(list_outcome.before)

C12_Witness ==
    /\ list_outcome.call = "delete"
    /\ list_outcome.raised = ""
    /\ Len(list_outcome.before) = MaxList
    /\ FirstOccurrence(list_outcome.before, list_outcome.arg) = 2
    /\ Occurs(list_abstract, list_outcome.arg)

\* C13: delete raises ValueError when its target is absent, delete_from_front
\* raises ValueError on an empty list, get raises IndexError when the index
\* is negative or not below the length; in these cases, and on every get that
\* returns, the list is as it was, and get returns the element at the index.
C13_ErrorsLeaveListUnchanged ==
    LET o == list_outcome
    IN  /\ o.call = "delete" =>
               /\ (o.raised = "ValueError") <=> ~Occurs(o.before, o.arg)
               /\ o.raised \in {"", "ValueError"}
        /\ o.call = "delete_from_front" =>
               /\ (o.raised = "ValueError") <=> o.before = <<>>
               /\ o.raised \in {"", "ValueError"}
        /\ o.call = "get" =>
               /\ (o.raised = "IndexError") <=>
                      (o.arg < 0 \/ o.arg >= Len(o.before))
               /\ o.raised \in {"", "IndexError"}
               /\ o.raised = "" => o.returned = o.before[o.arg + 1]
               /\ iter(list_head) = o.before
        /\ o.raised # "" => iter(list_head) = o.before

C13_Witness ==
    /\ list_outcome.call = "get"
    /\ list_outcome.raised = "IndexError"
    /\ list_outcome.arg = Len(list_outcome.before)
    /\ list_outcome.arg > 1

(***************************************************************************)
(* A model of grokking_algorithms/stacks/linter.py.  An error message is   *)
(* the record of the fields its text is formatted from; indexes are        *)
(* 0-based as in the source.                                               *)
(***************************************************************************)
\* the longest text put together from the linter's alphabet
MaxLint == 4

\* DEFAULT_BRACKET_PAIRS
DEFAULT_BRACKET_PAIRS ==
    [opening \in {"(", "{", "["} |->
        IF opening = "(" THEN ")" ELSE IF opening = "{" THEN "}" ELSE "]"]

\* self.pairs.values()
pairs_values == {DEFAULT_BRACKET_PAIRS[opening] : opening \in DOMAIN DEFAULT_BRACKET_PAIRS}

\* f"Unmatched closing '{char}' at index {index}"
UnmatchedClosing(char, index) ==
    [message |-> "Unmatched closing", opening |-> "", opening_index |-> 0 - 1,
     closing |-> char, closing_index |-> index]

\* f"Mismatched '{last_open}' at index {last_index} with '{char}' at index {index}"
Mismatched(last_open, last_index, char, index) ==
    [message |-> "Mismatched", opening |-> last_open,
     opening_index |-> last_index, closing |-> char, closing_index |-> index]

\* f"Unmatched opening '{last_open}' at index {last_index}"
UnmatchedOpening(last_open, last_index) ==
    [message |-> "Unmatched opening", opening |-> last_open,
     opening_index |-> last_index, closing |-> "", closing_index |-> 0 - 1]

\* self.pairs[last_open] != char
never_mismatched(last_open, char) == FALSE

is_mismatched(last_open, char) == DEFAULT_BRACKET_PAIRS[last_open] # char

\* the while loop of BracketMatcher.match: what is left on the stack is
\* popped from its top
RECURSIVE match_drain(_, _)
match_drain(stack, errors) ==
    IF stack = <<>> THEN errors
    ELSE LET top == stack[Len(stack)]
         IN  match_drain(SubSeq(stack, 1, Len(stack) - 1),
                         Append(errors, UnmatchedOpening(top[1], top[2])))

\* the for loop of BracketMatcher.match from index on
RECURSIVE match_scan(_, _, _, _)
match_scan(text, index, stack, errors) ==
    IF index >= Len(text) THEN match_drain(stack, errors)
    ELSE LET char == text[index + 1]
         IN  IF char \in DOMAIN DEFAULT_BRACKET_PAIRS
             THEN match_scan(text, index + 1, Append(stack, <<char, index>>),
                             errors)
             ELSE IF char \in pairs_values
             THEN IF stack = <<>>
                  THEN match_scan(text, index + 1, stack,
                                  Append(errors, UnmatchedClosing(char, index)))
                  ELSE LET top == stack[Len(stack)]
                           popped == SubSeq(stack, 1, Len(stack) - 1)
                       IN  IF is_mismatched(top[1], char)
                           THEN match_scan(text, index + 1, popped,
                                    Append(errors,
                                           Mismatched(top[1], top[2], char, index)))
                           ELSE match_scan(text, index + 1, popped, errors)
             ELSE match_scan(text, index + 1, stack, errors)

\* BracketMatcher.match
match(text) == match_scan(text, 0, <<>>, <<>>)

\* Linter.lint
lint(text) == match(text)

\* the characters texts are put together from
LintChars == {"(", ")", "[", "]", "{", "}", "a"}

RECURSIVE LintTyped(_)
LintTyped(n) ==
    IF n = 0 THEN {<<>>}
    ELSE LET shorter == LintTyped(n - 1)
         IN  shorter \cup {Append(t, c) : t \in shorter, c \in LintChars}

\* test_linter.py: the texts linted
lint_tests ==
    {
     <<"(", "a", " ", "+", " ", "b", ")", " ", "*", " ", "[", "c", " ", "-", " ", "d", "]", " ", "{", "e", " ", "/", " ", "f", "}">>,
     <<"(", "a", " ", "+", " ", "b">>,
     <<"a", " ", "+", " ", "b", "]">>,
     <<"[", "a", " ", "+", " ", "b", ")">>,
     <<"(", "a", " ", "+", " ", "[", "b", " ", "-", " ", "c", "}">>,
     <<>>,
     <<"{", "[", "(", "(", ")", ")", "]", "}">>,
     <<"(", "(", "{", "{", "[", "[">>,
     <<")", ")", "}", "}", "]", "]">>
    }

InitLinter ==
    /\ lint_text \in LintTyped(MaxLint) \cup lint_tests
    /\ lint_stage = "text"
    /\ lint_errors = <<>>
    /\ FormatterIdle /\ FormulexIdle /\ ListIdle /\ SortIdle /\ StepIdle

\* Linter(BracketMatcher()).lint(text)
Linter_lint ==
    /\ lint_stage = "text"
    /\ lint_errors' = lint(lint_text)
    /\ lint_stage' = "linted"
    /\ UNCHANGED lint_text
    /\ UNCHANGED <<formatterVars, formulexVars, listVars, sortVars, stepVars>>

NextLinter == Linter_lint

SpecLinter == InitLinter /\ [][NextLinter]_vars

(***************************************************************************)
(* Claims on the linter.  Balance is defined without a stack: brackets     *)
(* that stand next to each other and pair up are struck out until none     *)
(* is left to strike.                                                      *)
(***************************************************************************)
Linted == lint_stage = "linted"

Openers == {"(", "[", "{"}

Closers == {")", "]", "}"}

PairUp(opening, closing) ==
    \/ opening = "(" /\ closing = ")"
    \/ opening = "[" /\ closing = "]"
    \/ opening = "{" /\ closing = "}"

\* the brackets of text, each with its 0-based index
RECURSIVE BracketsFrom(_, _)
BracketsFrom(text, i) ==
    IF i > Len(text) THEN <<>>
    ELSE IF text[i] \in Openers \cup Closers
         THEN <<<<text[i], i - 1>>>> \o BracketsFrom(text, i + 1)
    ELSE BracketsFrom(text, i + 1)

RECURSIVE Struck(_)
Struck(brackets) ==
    IF \E i \in 1..(Len(brackets) - 1) : PairUp(brackets[i][1], brackets[i + 1][1])
    THEN LET i == CHOOSE k \in 1..(Len(brackets) - 1) :
                      PairUp(brackets[k][1], brackets[k + 1][1])
         IN  Struck(SubSeq(brackets, 1, i - 1)
                        \o SubSeq(brackets, i + 2, Len(brackets)))
    ELSE brackets

Residue(text) == Struck(BracketsFrom(text, 1))

Balanced(text) == Residue(text) = <<>>

ErrorsReturned == {lint_errors[i] : i \in 1..Len(lint_errors)}

MaxSort == 4

\* [x for x in self.data if x < pivot]
left_of(data, pivot) == SelectSeq(data, LAMBDA x : x < pivot)

\* [x for x in self.data if x == pivot]
middle_once(data, pivot) == <<pivot>>

middle_of(data, pivot) == SelectSeq(data, LAMBDA x : x = pivot)

\* [x for x in self.data if x > pivot]
right_of(data, pivot) == SelectSeq(data, LAMBDA x : x > pivot)

\* RecursiveQuickSort(data).sort()
RECURSIVE sort(_)
sort(data) ==
    IF Len(data) <= 1 THEN data
    ELSE LET pivot == data[(Len(data) \div 2) + 1]
         IN  sort(left_of(data, pivot))
                 \o middle_of(data, pivot)
                 \o sort(right_of(data, pivot))

\* the values lists are put together from
SortValues == {1, 2, 3}

RECURSIVE SortTyped(_)
SortTyped(n) ==
    IF n = 0 THEN {<<>>}
    ELSE LET shorter == SortTyped(n - 1)
         IN  shorter \cup {Append(t, v) : t \in shorter, v \in SortValues}

\* test_sorting.py: the lists sorted
sort_tests ==
    {<<>>, <<1>>, <<1, 2, 3, 4, 5>>, <<5, 4, 3, 2, 1>>,
     <<3, 1, 4, 1, 5, 9, 2, 6, 5, 3, 5>>, <<4, 2, 4, 3, 1, 2, 4>>}

\* RecursiveQuickSort.__init__
InitSort ==
    /\ sort_data \in SortTyped(MaxSort) \cup sort_tests
    /\ sort_stage = "constructed"
    /\ sort_result = <<>>
    /\ FormatterIdle /\ FormulexIdle /\ ListIdle /\ LinterIdle /\ StepIdle

\* RecursiveQuickSort.sort
RecursiveQuickSort_sort ==
    /\ sort_stage = "constructed"
    /\ sort_result' = sort(sort_data)
    /\ sort_stage' = "sorted"
    /\ UNCHANGED sort_data
    /\ UNCHANGED <<formatterVars, formulexVars, listVars, linterVars, stepVars>>

NextSort == RecursiveQuickSort_sort

SpecSort == InitSort /\ [][NextSort]_vars

Count(seq, v) == Cardinality({i \in 1..Len(seq) : seq[i] = v})

NonDecreasing(seq) == \A i \in 1..(Len(seq) - 1) : seq[i] <= seq[i + 1]

IsPermutation(a, b) ==
    /\ Len(a) = Len(b)
    /\ \A i \in 1..Len(a) : Count(a, a[i]) = Count(b, a[i])

\* C15: sort returns a list in non-decreasing order that is a permutation of
\* the data the sorter was built on, the empty list, one element and repeated
\* values included; the data is compared as it is after the call, which
\* leaves it as it was.
C15_SortedPermutation ==
    sort_stage = "sorted" =>
        /\ NonDecreasing(sort_result)
        /\ IsPermutation(sort_result, sort_data)

C15_Witness ==
    /\ sort_stage = "sorted"
    /\ sort_data = <<4, 2, 4, 3, 1, 2, 4>>
    /\ sort_result = <<1, 2, 2, 3, 4, 4, 4>>

(***************************************************************************)
(* Further claims on expression_formatter.py.                              *)
(***************************************************************************)
ParseReturned == stage \in {"parsed", "formatted"}

Assoc(node) == OPERATORS[node.op][2]

\* the operand of the root that stands on the side where equal precedence
\* conflicts with the root's associativity
ConflictingOperand ==
    IF Assoc(expression) = "L" THEN expression.right ELSE expression.left

TieAtRoot ==
    /\ expression.kind = "BinaryOp"
    /\ expression.op \in DOMAIN OPERATORS
    /\ ConflictingOperand.kind = "BinaryOp"
    /\ ConflictingOperand.op \in DOMAIN OPERATORS
    /\ Prec(ConflictingOperand) = Prec(expression)

\* C16: a BinaryOp operand of equal precedence on the conflicting side (the
\* right of a left-associative operator, the left of a right-associative one)
\* is rendered inside exactly one pair of parentheses: `a - (b - c)` comes
\* out as `a - (b - c)` and `(a ** b) ** c` as `(a ** b) ** c`.
C16_TieBreakOnePair ==
    (Done /\ TieAtRoot) =>
        IF Assoc(expression) = "L"
        THEN output = format(expression.left, Prec(expression))
                          \o Spaced(expression.op)
                          \o InParens(format(expression.right, 0))
        ELSE output = InParens(format(expression.left, 0))
                          \o Spaced(expression.op)
                          \o format(expression.right, Prec(expression))

\* operands and registered operators in turn, an operand first and last
OperandsAndOperators ==
    /\ Len(tokens) % 2 = 1
    /\ \A i \in 1..Len(tokens) :
           IF i % 2 = 1 THEN IsOperand(tokens[i])
           ELSE tokens[i][1] = "OP" /\ tokens[i][2] \in DOMAIN OPERATORS

IsBinaryOp(node) == node.kind = "BinaryOp"

\* the operand and operator tokens of a tree read from left to right
RECURSIVE InOrder(_)
InOrder(node) ==
    IF node.kind = "Value" THEN <<<<"NUMBER", node.val>>>>
    ELSE IF node.kind = "Variable" THEN <<<<"ID", node.name>>>>
    ELSE IF node.kind = "BinaryOp"
    THEN InOrder(node.left) \o <<<<"OP", node.op>>>> \o InOrder(node.right)
    ELSE <<>>

\* C17: for an input of operands and registered binary operators and no
\* parentheses, every BinaryOp of a left-associative operator of precedence p
\* has no BinaryOp of precedence <= p as right child and none of precedence
\* < p as left child; of a right-associative operator, none of precedence
\* <= p as left child and none of precedence < p as right child; and the
\* tree read in order is the token sequence.
C17_ClimbingShape ==
    (ParseReturned /\ OperandsAndOperators) =>
        /\ InOrder(expression) = tokens
        /\ \A n \in Subterms(expression) :
               IsBinaryOp(n) =>
                   IF Assoc(n) = "L"
                   THEN /\ ~(IsBinaryOp(n.right) /\ Prec(n.right) <= Prec(n))
                        /\ ~(IsBinaryOp(n.left) /\ Prec(n.left) < Prec(n))
                   ELSE /\ ~(IsBinaryOp(n.left) /\ Prec(n.left) <= Prec(n))
                        /\ ~(IsBinaryOp(n.right) /\ Prec(n.right) < Prec(n))

C17_Witness ==
    /\ ParseReturned
    /\ OperandsAndOperators
    /\ Len(tokens) = 7
    /\ expression.op = MINUS
    /\ IsBinaryOp(expression.left)
    /\ expression.left.op = MINUS
    /\ IsBinaryOp(expression.right)
    /\ expression.right.op = POW

\* C18: a unary minus takes exactly one primary: `-x op y` is
\* BinaryOp(UnaryOp('-', x), op, y) for every registered operator, `**`
\* included, and never UnaryOp('-', BinaryOp(...)); parentheses around a
\* primary leave no node of their own.
C18_UnaryMinusOnePrimary ==
    ParseReturned =>
        /\ NegatedLeft =>
               expression = BinaryOp(UnaryOp(MINUS, Leaf(tokens[2])),
                                     tokens[3][2], Leaf(tokens[4]))
        /\ (/\ Len(tokens) = 6
            /\ tokens[1] = <<"OP", MINUS>>
            /\ tokens[2] = <<"OP", LPAREN>>
            /\ IsOperand(tokens[3])
            /\ tokens[4] = <<"OP", RPAREN>>
            /\ IsOperand(tokens[6])) =>
               expression = BinaryOp(UnaryOp(MINUS, Leaf(tokens[3])),
                                     tokens[5][2], Leaf(tokens[6]))
        /\ (/\ Len(tokens) = 3
            /\ tokens[1] = <<"OP", LPAREN>>
            /\ IsOperand(tokens[2])
            /\ tokens[3] = <<"OP", RPAREN>>) =>
               expression = Leaf(tokens[2])
        /\ (tokens[1] = <<"OP", MINUS>> /\ tokens[2] # <<"OP", LPAREN>>) =>
               ~(/\ expression.kind = "UnaryOp"
                 /\ expression.op = MINUS
                 /\ IsBinaryOp(expression.operand))

C18_Witness ==
    /\ ParseReturned
    /\ NegatedLeft
    /\ tokens[3][2] = POW
    /\ expression.kind = "BinaryOp"
    /\ expression.left = UnaryOp(MINUS, Leaf(tokens[2]))

(***************************************************************************)
(* Parser.parse of expression_formatter.py run call by call.  A frame is   *)
(* one call of parse, parse_expression or parse_primary in progress: the   *)
(* place it has reached and its local variables.  A step runs the code of  *)
(* the innermost call up to its next call, its return or its raise.        *)
(***************************************************************************)
\* the longest token list put together from StepAlphabet
MaxStep == 4

Frame(fn, pc, min_prec, node, op, args) ==
    [fn |-> fn, pc |-> pc, min_prec |-> min_prec, node |-> node, op |-> op,
     args |-> args]

\* a call of parse_expression(min_prec) about to run its first statement
ExpressionFrame(min_prec) ==
    Frame("parse_expression", "start", min_prec, NoExpression, <<>>, <<>>)

\* a call of parse_primary() about to run its first statement
PrimaryFrame == Frame("parse_primary", "start", 0, NoExpression, <<>>, <<>>)

\* the innermost call in progress
Top == step_stack[Len(step_stack)]

\* the calls in progress once the innermost has returned
Popped == SubSeq(step_stack, 1, Len(step_stack) - 1)

Running(fn, pc) ==
    /\ step_stage = "running"
    /\ Top.fn = fn
    /\ Top.pc = pc

\* the caller takes the value its callee returned and goes on from the call
Resumed(frame, value) ==
    IF frame.pc = "await_right"
    THEN [frame EXCEPT !.node = BinaryOp(frame.node, frame.op, value),
                       !.pc = "loop"]
    ELSE IF frame.pc = "await_primary"
    THEN [frame EXCEPT !.node = value, !.pc = "loop"]
    ELSE IF frame.pc = "await_arg"
    THEN [frame EXCEPT !.args = Append(frame.args, value), !.pc = "got_arg"]
    ELSE IF frame.pc = "await_paren"
    THEN [frame EXCEPT !.node = value, !.pc = "got_paren"]
    ELSE IF frame.pc = "await_operand"
    THEN [frame EXCEPT !.node = value, !.pc = "got_operand"]
    ELSE [frame EXCEPT !.node = value, !.pc = "check"]

\* return value: the innermost call ends and its caller resumes
StepReturns(value) ==
    /\ step_stack' = [Popped EXCEPT ![Len(Popped)] = Resumed(Popped[Len(Popped)], value)]
    /\ UNCHANGED <<step_stage, step_result, step_error>>

\* raise SyntaxError: no call in progress catches it
StepRaises(msg) ==
    /\ step_stack' = <<>>
    /\ step_stage' = "raised"
    /\ step_error' = msg
    /\ UNCHANGED step_result

\* the innermost call, left at pc with its locals, calls callee
StepCalls(frame, callee) ==
    /\ step_stack' = Append([step_stack EXCEPT ![Len(step_stack)] = frame], callee)
    /\ UNCHANGED <<step_stage, step_result, step_error>>

\* the tokens token lists are put together from
StepAlphabet ==
    {<<"ID", <<"a">>>>, <<"OP", <<"-">>>>, <<"OP", <<"*">>>>,
     <<"OP", <<"(">>>>, <<"OP", <<")">>>>, <<"COMMA", <<",">>>>}

RECURSIVE StepTyped(_)
StepTyped(n) ==
    IF n = 0 THEN {<<>>}
    ELSE LET shorter == StepTyped(n - 1)
         IN  shorter \cup {Append(t, tok) : t \in shorter, tok \in StepAlphabet}

\* the token lists of the inputs of the test table and of the documentation
StepExamples ==
    {tokenize(t[1]).tokens : t \in tests}
        \cup {tokenize(d).tokens : d \in {e \in DocExamples : tokenize(e).ok}}

\* Parser.__init__ has run: the tokens are listed and the cursor is at 0
InitStep ==
    /\ step_tokens \in StepTyped(MaxStep) \cup StepExamples
    /\ step_pos = 0
    /\ step_stack = <<>>
    /\ step_stage = "ready"
    /\ step_result = NoExpression
    /\ step_error = ""
    /\ FormatterIdle /\ FormulexIdle /\ ListIdle /\ LinterIdle /\ SortIdle

\* Parser.parse: result = self.parse_expression()
Step_parse ==
    /\ step_stage = "ready"
    /\ step_stage' = "running"
    /\ step_stack' = <<Frame("parse", "await", 0, NoExpression, <<>>, <<>>),
                       ExpressionFrame(1)>>
    /\ UNCHANGED <<step_tokens, step_pos, step_result, step_error>>
    /\ UNCHANGED <<formatterVars, formulexVars, listVars, linterVars, sortVars>>

\* Parser.parse: the test for the end of the input, and the return
Step_parse_return ==
    /\ Running("parse", "check")
    /\ step_stack' = <<>>
    /\ IF current(step_tokens, step_pos)[1] # "EOF"
       THEN /\ step_stage' = "raised"
            /\ step_error' = "Unexpected token after end of expression"
            /\ UNCHANGED step_result
       ELSE /\ step_stage' = "returned"
            /\ step_result' = Top.node
            /\ UNCHANGED step_error
    /\ UNCHANGED <<step_tokens, step_pos>>
    /\ UNCHANGED <<formatterVars, formulexVars, listVars, linterVars, sortVars>>

\* Parser.parse_expression: node = self.parse_primary()
Step_parse_expression ==
    /\ Running("parse_expression", "start")
    /\ StepCalls([Top EXCEPT !.pc = "await_primary"], PrimaryFrame)
    /\ UNCHANGED <<step_tokens, step_pos>>
    /\ UNCHANGED <<formatterVars, formulexVars, listVars, linterVars, sortVars>>

\* Parser.parse_expression: one iteration of the operator loop
Step_parse_expression_loop ==
    /\ Running("parse_expression", "loop")
    /\ LET tok == current(step_tokens, step_pos)
           tok_kind == tok[1]
           tok_val == tok[2]
       IN  IF tok_kind = "OP" /\ OperatorMeta_contains(tok_val)
           THEN LET prec == OperatorMeta_get(tok_val)[1]
                    assoc == OperatorMeta_get(tok_val)[2]
                IN  IF prec < Top.min_prec
                    THEN StepReturns(Top.node) /\ UNCHANGED step_pos
                    ELSE /\ step_pos' = advance(step_pos)
                         /\ StepCalls([Top EXCEPT !.op = tok_val,
                                                  !.pc = "await_right"],
                                      ExpressionFrame(next_min_prec(prec, assoc)))
           ELSE StepReturns(Top.node) /\ UNCHANGED step_pos
    /\ UNCHANGED step_tokens
    /\ UNCHANGED <<formatterVars, formulexVars, listVars, linterVars, sortVars>>

\* Parser.parse_primary from its first statement to its first call, its
\* return or its raise
Step_parse_primary ==
    /\ Running("parse_primary", "start")
    /\ LET tok == current(step_tokens, step_pos)
           tok_kind == tok[1]
           tok_val == tok[2]
           p1 == advance(step_pos)
           p2 == advance(p1)
           closed == expect(step_tokens, p2, "OP", RPAREN)
       IN  IF tok_kind = "NUMBER"
           THEN step_pos' = p1 /\ StepReturns(Value(tok_val))
           ELSE IF tok_kind = "ID"
           THEN IF current(step_tokens, p1)[2] = LPAREN
                THEN IF current(step_tokens, p2)[2] # RPAREN
                     THEN /\ step_pos' = p2
                          /\ StepCalls([Top EXCEPT !.op = tok_val,
                                                   !.args = <<>>,
                                                   !.pc = "await_arg"],
                                       ExpressionFrame(1))
                     ELSE IF ~closed.ok
                     THEN step_pos' = p2 /\ StepRaises(closed.error)
                     ELSE /\ step_pos' = closed.pos
                          /\ StepReturns(FuncCall(tok_val, <<>>))
                ELSE step_pos' = p1 /\ StepReturns(Variable(tok_val))
           ELSE IF tok_kind = "OP"
           THEN IF tok_val = LPAREN
                THEN /\ step_pos' = p1
                     /\ StepCalls([Top EXCEPT !.pc = "await_paren"],
                                  ExpressionFrame(1))
                ELSE IF tok_val = MINUS
                THEN /\ step_pos' = p1
                     /\ StepCalls([Top EXCEPT !.pc = "await_operand"],
                                  PrimaryFrame)
                ELSE /\ StepRaises("Unexpected operator in primary")
                     /\ UNCHANGED step_pos
           ELSE StepRaises("Unexpected token") /\ UNCHANGED step_pos
    /\ UNCHANGED step_tokens
    /\ UNCHANGED <<formatterVars, formulexVars, listVars, linterVars, sortVars>>

\* Parser.parse_primary after an argument of a call: the next argument, or
\* the closing parenthesis and the return of the call's node
Step_parse_primary_argument ==
    /\ Running("parse_primary", "got_arg")
    /\ LET closed == expect(step_tokens, step_pos, "OP", RPAREN)
       IN  IF current(step_tokens, step_pos)[2] = COMMA
           THEN /\ step_pos' = advance(step_pos)
                /\ StepCalls([Top EXCEPT !.pc = "await_arg"], ExpressionFrame(1))
           ELSE IF ~closed.ok
           THEN StepRaises(closed.error) /\ UNCHANGED step_pos
           ELSE /\ step_pos' = closed.pos
                /\ StepReturns(IF Len(Top.args) = 1
                               THEN UnaryOp(Top.op, Top.args[1])
                               ELSE FuncCall(Top.op, Top.args))
    /\ UNCHANGED step_tokens
    /\ UNCHANGED <<formatterVars, formulexVars, listVars, linterVars, sortVars>>

\* Parser.parse_primary after the expression in parentheses:
\* self.expect("OP", ")") and return node
Step_parse_primary_close ==
    /\ Running("parse_primary", "got_paren")
    /\ LET closed == expect(step_tokens, step_pos, "OP", RPAREN)
       IN  IF ~closed.ok
           THEN StepRaises(closed.error) /\ UNCHANGED step_pos
           ELSE step_pos' = closed.pos /\ StepReturns(Top.node)
    /\ UNCHANGED step_tokens
    /\ UNCHANGED <<formatterVars, formulexVars, listVars, linterVars, sortVars>>

\* Parser.parse_primary after the operand of a minus: return UnaryOp("-", operand)
Step_parse_primary_unary ==
    /\ Running("parse_primary", "got_operand")
    /\ StepReturns(UnaryOp(MINUS, Top.node))
    /\ UNCHANGED <<step_tokens, step_pos>>
    /\ UNCHANGED <<formatterVars, formulexVars, listVars, linterVars, sortVars>>

NextStep ==
    \/ Step_parse
    \/ Step_parse_return
    \/ Step_parse_expression
    \/ Step_parse_expression_loop
    \/ Step_parse_primary
    \/ Step_parse_primary_argument
    \/ Step_parse_primary_close
    \/ Step_parse_primary_unary

\* the interpreter goes on running the call in progress
SpecStep == InitStep /\ [][NextStep]_vars /\ WF_vars(NextStep)

(***************************************************************************)
(* C21. Termination of Parser.parse.                                       *)
(***************************************************************************)
StepEnded == step_stage \in {"returned", "raised"}

\* run call by call, parse ends as parse does in one piece: the same tree
\* and cursor, or the same error
StepAgreesWithParse ==
    StepEnded =>
        LET parsed == parse(step_tokens)
        IN  /\ parsed.ok <=> step_stage = "returned"
            /\ step_result = parsed.node
            /\ step_error = parsed.error
            /\ step_pos = parsed.pos

\* the step consumes a token that is there
ConsumesToken ==
    /\ step_pos < Len(step_tokens)
    /\ step_pos' > step_pos

\* an iteration of the operator loop that goes on to a right-hand side
LoopGoesOn ==
    /\ Running("parse_expression", "loop")
    /\ Len(step_stack') > Len(step_stack)

\* C21: for every token list Parser.parse eventually returns a tree or
\* raises: the cursor never exceeds len(tokens) and never decreases, every
\* call of parse_primary and every iteration of the operator loop that goes
\* on either consumes a token that is there or raises.
C21_ParseTerminates ==
    /\ [](step_pos <= Len(step_tokens))
    /\ [][step_pos' >= step_pos]_vars
    /\ [][Running("parse_primary", "start")
              => (ConsumesToken \/ step_stage' = "raised")]_vars
    /\ [][LoopGoesOn => ConsumesToken]_vars
    /\ <>StepEnded

C21_Witness ==
    /\ step_stage = "returned"
    /\ step_pos = Len(step_tokens)
    /\ Len(step_tokens) > 8
    /\ step_result.kind = "FuncCall"
    /\ Len(step_result.args) = 2

====
